---------------------------- MODULE Spec2Model ----------------------------
(***************************************************************************)
(* Model of the serial-port plugin's command surface (src/src/commands.rs) *)
(* and of the reader threads that `read` spawns.                           *)
(*                                                                         *)
(* Every command runs its whole body under state.serialports.lock(), so a  *)
(* command is one atomic action; LockSpec makes the device write of write  *)
(* and write_binary a step of its own.  A reader thread takes no lock;     *)
(* one loop iteration is two steps: the try_recv poll and the read_exact   *)
(* call, so that a command can interleave while the thread is blocked in   *)
(* the device read.                                                        *)
(***************************************************************************)
EXTENDS Integers, Sequences, FiniteSets, TLC

\* ---------------------------------------------------------------- bounds
\* Total number of reader threads ever spawned.
MaxEngines == 2
\* Largest number of bytes a reader buffers before the device sends '\n'.
MaxBuf == 1
\* Largest number of tokens queued in one cancellation channel.
MaxTokens == 1

\* ------------------------------------------------------- program constants
\* '\n', the frame delimiter of the reader loop.
NEWLINE == 10

\* Port identifiers, as sequences of characters.
Paths == { <<"a">>, <<"a", ".">> }

\* Byte values the devices deliver: '\n', 'a' and one value above 127.
Bytes == { NEWLINE, 97, 200 }

\* Payloads handed to write (as chars) and write_binary (as bytes).
Payloads == { <<200>> }

VARIABLES
    serialports,  \* the Registry: path -> SerialportInfo, for the open paths
    engines,      \* the reader threads spawned so far, in spawn order
    last,         \* the step just taken: the command and what it returned, or
                  \* the reader thread's step; and what window.emit was given
    lock          \* the Registry's mutex: Free when no command holds it across
                  \* a step, or the write whose device write is in progress

vars == <<serialports, engines, last, lock>>

\* --------------------------------------------------------------- helpers
\* path.replace(".", "")
EventPath(path) == SelectSeq(path, LAMBDA c : c # ".")

\* `byte as char` pushed on a String: the char's UTF-8 encoding is appended.
PushChar(message_buf, byte) ==
    IF byte < 128
    THEN Append(message_buf, byte)
    ELSE message_buf \o << 192 + (byte \div 64), 128 + (byte % 64) >>

\* SerialportInfo { serialport, sender }: sender is 0 for None, else the
\* index of the reader thread that holds the channel's receiver.
SerialportInfo(sender) == [ sender |-> sender ]

\* A reader thread just spawned, with its channel: the loop is about to poll.
\* raw records the bytes read_exact has returned since the last '\n'.
NewEngine(path) ==
    [ path |-> path, state |-> "Running", pc |-> "poll",
      message_buf |-> <<>>, tokens |-> 0, txAlive |-> TRUE, raw |-> <<>> ]

Running(e) == e \in 1..Len(engines) /\ engines[e].state = "Running"

\* sender.send(1): fails iff the receiver was dropped (the thread has exited).
SendOk(engs, s) == engs[s].state = "Running"

Send(engs, s) == [engs EXCEPT ![s].tokens = @ + 1]

\* Dropping the Sender stored in a Session disconnects the channel.
DropSender(engs, s) ==
    IF s = 0 THEN engs ELSE [engs EXCEPT ![s].txAlive = FALSE]

\* rx.try_recv()
TryRecv(eng) ==
    IF eng.tokens > 0 THEN "Ok"
    ELSE IF ~eng.txAlive THEN "Disconnected"
    ELSE "Empty"

\* The thread leaves the loop: its receiver and its buffer are dropped.
Exit(eng, state) ==
    [eng EXCEPT !.state = state, !.pc = "done", !.message_buf = <<>>,
                !.tokens = 0, !.raw = <<>>]

\* The record of a step: a command's return value (size: the Ok(size) of a
\* write; before, signalled: the map close_all found and the paths it sent
\* a token to), or a reader thread's step (engine, byte), and the events
\* given to window.emit during the step.  found: whether path was in the
\* map when the step began; opened: whether the device open was called;
\* cloned: whether try_clone was called; spawned: the thread spawned, or 0;
\* dropped: the length of the buffer a reader dropped on an I/O error.
Step(op, path, result) ==
    [ op |-> op, path |-> path, result |-> result, size |-> 0,
      before |-> << >>, signalled |-> {}, engine |-> 0, byte |-> 0,
      emitted |-> << >>, found |-> path \in DOMAIN serialports,
      opened |-> FALSE, cloned |-> FALSE, spawned |-> 0, dropped |-> 0 ]

Result(op, path, result) == Step(op, path, result)

EngineResult(e, result) == [Step("engine", engines[e].path, result) EXCEPT !.engine = e]

\* ReadData { data, size } emitted as plugin-serialport-read-<event_path>;
\* frame: the bytes read from the device for it; pending: whether a
\* cancellation token was queued when it was emitted.
MessageEvent(path, message_buf, frame, pending) ==
    [ kind |-> "read", name |-> EventPath(path),
      data |-> message_buf, size |-> Len(message_buf),
      frame |-> frame, pending |-> pending ]

\* plugin-serialport-disconnected-<event_path>
DisconnectedEvent(path) ==
    [ kind |-> "disconnected", name |-> EventPath(path),
      data |-> <<>>, size |-> 0, frame |-> <<>>, pending |-> FALSE ]

\* value.as_bytes() of a String given by its chars.
RECURSIVE AsBytes(_)
AsBytes(value) ==
    IF value = <<>> THEN <<>>
    ELSE PushChar(AsBytes(SubSeq(value, 1, Len(value) - 1)), value[Len(value)])

\* The mutex with no guard alive.
Free == [op |-> "free", path |-> << >>, value |-> << >>]

\* ------------------------------------------------------------------ Init
Init ==
    /\ serialports = << >>
    /\ engines = << >>
    /\ last = Result("init", <<>>, "Ok")
    /\ lock = Free

\* -------------------------------------------------------------- commands
\* state.serialports.lock(): the command waits for the mutex, runs its whole
\* body with the guard alive and drops the guard when it returns.
Locked ==
    /\ lock = Free
    /\ UNCHANGED lock

\* serialports.insert(path, data): a Session already stored is dropped.
Insert(map, path, data) ==
    [p \in DOMAIN map \cup {path} |-> IF p = path THEN data ELSE map[p]]

\* open without the contains_key check.
open_replaces(path) ==
    /\ Locked
    /\ \E opened \in BOOLEAN :
           /\ serialports' = IF opened THEN Insert(serialports, path, SerialportInfo(0))
                                        ELSE serialports
           /\ engines' = IF opened /\ path \in DOMAIN serialports
                          THEN DropSender(engines, serialports[path].sender)
                          ELSE engines
           /\ last' = [Result("open", path, IF opened THEN "Ok" ELSE "OpenError")
                         EXCEPT !.opened = TRUE]

\* open storing the Session whether or not the device open succeeded.
open_inserts_on_error(path) ==
    /\ Locked
    /\ IF path \in DOMAIN serialports
       THEN /\ last' = Result("open", path, "AlreadyOpen")
            /\ UNCHANGED <<serialports, engines>>
       ELSE \E opened \in BOOLEAN :
               /\ serialports' = Insert(serialports, path, SerialportInfo(0))
               /\ last' = [Result("open", path, IF opened THEN "Ok" ELSE "OpenError")
                             EXCEPT !.opened = TRUE]
               /\ UNCHANGED engines

open(path) ==
    /\ Locked
    /\ IF path \in DOMAIN serialports
       THEN /\ last' = Result("open", path, "AlreadyOpen")
            /\ UNCHANGED <<serialports, engines>>
       ELSE \E opened \in BOOLEAN :
               /\ serialports' = IF opened THEN Insert(serialports, path, SerialportInfo(0))
                                            ELSE serialports
               /\ last' = [Result("open", path, IF opened THEN "Ok" ELSE "OpenError")
                             EXCEPT !.opened = TRUE]
               /\ UNCHANGED engines

Remove(map, path) == [p \in DOMAIN map \ {path} |-> map[p]]

\* close with the stored Sender kept alive somewhere else.
close_keeps_sender(path) ==
    /\ Locked
    /\ IF path \in DOMAIN serialports
       THEN /\ serialports' = Remove(serialports, path)
            /\ last' = Result("close", path, "Ok")
            /\ UNCHANGED engines
       ELSE /\ last' = Result("close", path, "NotFound")
            /\ UNCHANGED <<serialports, engines>>

close(path) ==
    /\ Locked
    /\ IF path \in DOMAIN serialports
       THEN /\ serialports' = Remove(serialports, path)
            /\ engines' = DropSender(engines, serialports[path].sender)
            /\ last' = Result("close", path, "Ok")
       ELSE /\ last' = Result("close", path, "NotFound")
            /\ UNCHANGED <<serialports, engines>>

\* get_serialport: the closure runs on the Session of path, if there is one.
NotFound(op, path) ==
    /\ Locked
    /\ path \notin DOMAIN serialports
    /\ last' = Result(op, path, "NotFound")
    /\ UNCHANGED <<serialports, engines>>

cancel_read(path) ==
    \/ NotFound("cancel_read", path)
    \/ /\ Locked
       /\ path \in DOMAIN serialports
       /\ LET s == serialports[path].sender IN
          IF s # 0 /\ ~SendOk(engines, s)
          THEN \* the early return: the sender stays stored
               /\ last' = Result("cancel_read", path, "SendError")
               /\ UNCHANGED <<serialports, engines>>
          ELSE /\ s # 0 => engines[s].tokens < MaxTokens
               /\ engines' = IF s = 0 THEN engines
                              ELSE DropSender(Send(engines, s), s)
               /\ serialports' = [serialports EXCEPT ![path].sender = 0]
               /\ last' = Result("cancel_read", path, "Ok")

\* The orders in which map.values() may visit the sessions.
Orders(S) ==
    { o \in [1..Cardinality(S) -> S] : \A i, j \in DOMAIN o : o[i] = o[j] => i = j }

\* The loop of close_all over the sessions from position i of order on:
\* whether every send succeeded, the channels after the sends that were
\* made, and the paths whose reader was sent a token.
RECURSIVE SignalAll(_, _, _, _)
SignalAll(order, i, engs, signalled) ==
    IF i > Len(order)
    THEN [ ok |-> TRUE, engines |-> engs, signalled |-> signalled ]
    ELSE LET s == serialports[order[i]].sender IN
         IF s = 0 THEN SignalAll(order, i + 1, engs, signalled)
         ELSE IF SendOk(engs, s)
         THEN SignalAll(order, i + 1, Send(engs, s), signalled \cup {order[i]})
         ELSE [ ok |-> FALSE, engines |-> engs, signalled |-> signalled ]

\* map.clear(): every Session, and with it every stored Sender, is dropped.
RECURSIVE DropAll(_, _)
DropAll(engs, senders) ==
    IF senders = {} THEN engs
    ELSE LET s == CHOOSE x \in senders : TRUE
         IN  DropAll(DropSender(engs, s), senders \ {s})

\* close_all dropping each Session as it signals it.
CloseAllMapPartial(map, sig) ==
    IF sig.ok THEN << >> ELSE [p \in DOMAIN map \ sig.signalled |-> map[p]]

\* The Registry close_all leaves, given the outcome of its loop.
CloseAllMap(map, sig) == IF sig.ok THEN << >> ELSE map

close_all ==
    /\ Locked
    /\ \A p \in DOMAIN serialports :
          serialports[p].sender # 0 => engines[serialports[p].sender].tokens < MaxTokens
    /\ \E order \in Orders(DOMAIN serialports) :
          LET sig == SignalAll(order, 1, engines, {})
              map == CloseAllMap(serialports, sig)
          IN  /\ serialports' = map
              /\ engines' = DropAll(sig.engines,
                                { serialports[p].sender : p \in DOMAIN serialports \ DOMAIN map })
              /\ last' = [ Result("close_all", <<>>, IF sig.ok THEN "Ok" ELSE "SendError")
                            EXCEPT !.before = serialports, !.signalled = sig.signalled ]

\* force_close reporting an absent path, as close does.
force_close_strict(path) ==
    /\ Locked
    /\ IF path \notin DOMAIN serialports
       THEN /\ last' = Result("force_close", path, "NotFound")
            /\ UNCHANGED <<serialports, engines>>
       ELSE LET s == serialports[path].sender IN
            IF s # 0 /\ ~SendOk(engines, s)
            THEN /\ last' = Result("force_close", path, "SendError")
                 /\ UNCHANGED <<serialports, engines>>
            ELSE /\ s # 0 => engines[s].tokens < MaxTokens
                 /\ engines' = IF s = 0 THEN engines
                                ELSE DropSender(Send(engines, s), s)
                 /\ serialports' = Remove(serialports, path)
                 /\ last' = Result("force_close", path, "Ok")

force_close(path) ==
    /\ Locked
    /\ IF path \notin DOMAIN serialports
       THEN /\ last' = Result("force_close", path, "Ok")
            /\ UNCHANGED <<serialports, engines>>
       ELSE LET s == serialports[path].sender IN
            IF s # 0 /\ ~SendOk(engines, s)
            THEN \* the early return: the Session stays in the map
                 /\ last' = Result("force_close", path, "SendError")
                 /\ UNCHANGED <<serialports, engines>>
            ELSE /\ s # 0 => engines[s].tokens < MaxTokens
                 /\ engines' = IF s = 0 THEN engines
                                ELSE DropSender(Send(engines, s), s)
                 /\ serialports' = Remove(serialports, path)
                 /\ last' = Result("force_close", path, "Ok")

\* read storing the sender before it duplicates the handle.
read_stores_sender_first(path) ==
    \/ NotFound("read", path)
    \/ /\ Locked
       /\ path \in DOMAIN serialports
       /\ IF serialports[path].sender # 0
          THEN /\ last' = Result("read", path, "Ok")
               /\ UNCHANGED <<serialports, engines>>
          ELSE /\ Len(engines) < MaxEngines
               /\ \E cloned \in BOOLEAN :
                    /\ engines' = Append(engines,
                                     IF cloned THEN NewEngine(path)
                                     ELSE Exit(NewEngine(path), "Cancelled"))
                    /\ serialports' =
                          [serialports EXCEPT ![path].sender = Len(engines) + 1]
                    /\ last' = IF cloned
                                THEN [Result("read", path, "Ok") EXCEPT
                                        !.cloned = TRUE, !.spawned = Len(engines) + 1]
                                ELSE [Result("read", path, "CloneError") EXCEPT
                                        !.cloned = TRUE,
                                        !.emitted = << DisconnectedEvent(path) >>]

\* read without the `sender.is_some()` check.
read_always_spawns(path) ==
    \/ NotFound("read", path)
    \/ /\ Locked
       /\ path \in DOMAIN serialports
       /\ \E cloned \in BOOLEAN :
            IF cloned
            THEN /\ Len(engines) < MaxEngines
                 /\ engines' = Append(DropSender(engines, serialports[path].sender),
                                      NewEngine(path))
                 /\ serialports' =
                       [serialports EXCEPT ![path].sender = Len(engines) + 1]
                 /\ last' = [Result("read", path, "Ok") EXCEPT
                               !.cloned = TRUE, !.spawned = Len(engines) + 1]
            ELSE /\ last' = [Result("read", path, "CloneError") EXCEPT
                               !.cloned = TRUE,
                               !.emitted = << DisconnectedEvent(path) >>]
                 /\ UNCHANGED <<serialports, engines>>

read(path) ==
    \/ NotFound("read", path)
    \/ /\ Locked
       /\ path \in DOMAIN serialports
       /\ IF serialports[path].sender # 0
          THEN \* already reading
               /\ last' = Result("read", path, "Ok")
               /\ UNCHANGED <<serialports, engines>>
          ELSE \E cloned \in BOOLEAN :
                 IF cloned
                 THEN /\ Len(engines) < MaxEngines
                      /\ engines' = Append(engines, NewEngine(path))
                      /\ serialports' =
                            [serialports EXCEPT ![path].sender = Len(engines) + 1]
                      /\ last' = [Result("read", path, "Ok") EXCEPT
                                    !.cloned = TRUE, !.spawned = Len(engines) + 1]
                 ELSE /\ last' = [Result("read", path, "CloneError") EXCEPT
                                    !.cloned = TRUE,
                                    !.emitted = << DisconnectedEvent(path) >>]
                      /\ UNCHANGED <<serialports, engines>>

\* serialport.write(bytes): the device takes some of the bytes, or fails.
WriteOutcomes(bytes) == { [ok |-> TRUE, size |-> n] : n \in 0..Len(bytes) }
                            \cup { [ok |-> FALSE, size |-> 0] }

\* write dropping the Session when the device write fails.
write_drops_on_error(path, value) ==
    \/ NotFound("write", path)
    \/ /\ Locked
       /\ path \in DOMAIN serialports
       /\ \E w \in WriteOutcomes(AsBytes(value)) :
            IF w.ok
            THEN /\ last' = [Result("write", path, "Ok") EXCEPT !.size = w.size]
                 /\ UNCHANGED <<serialports, engines>>
            ELSE /\ last' = [Result("write", path, "WriteError")
                              EXCEPT !.emitted = << DisconnectedEvent(path) >>]
                 /\ serialports' = Remove(serialports, path)
                 /\ engines' = DropSender(engines, serialports[path].sender)

\* The closure write gives to get_serialport: the device write, and what
\* the command returns and emits for its outcome.
WriteClosure(path, value) ==
    \E w \in WriteOutcomes(AsBytes(value)) :
        IF w.ok
        THEN /\ last' = [Result("write", path, "Ok") EXCEPT !.size = w.size]
             /\ UNCHANGED <<serialports, engines>>
        ELSE /\ last' = [Result("write", path, "WriteError")
                          EXCEPT !.emitted = << DisconnectedEvent(path) >>]
             /\ UNCHANGED <<serialports, engines>>

write(path, value) ==
    \/ NotFound("write", path)
    \/ /\ Locked
       /\ path \in DOMAIN serialports
       /\ WriteClosure(path, value)

\* The closure write_binary gives to get_serialport.
WriteBinaryClosure(path, value) ==
    \E w \in WriteOutcomes(value) :
        /\ last' = IF w.ok
                    THEN [Result("write_binary", path, "Ok") EXCEPT !.size = w.size]
                    ELSE Result("write_binary", path, "WriteError")
        /\ UNCHANGED <<serialports, engines>>

write_binary(path, value) ==
    \/ NotFound("write_binary", path)
    \/ /\ Locked
       /\ path \in DOMAIN serialports
       /\ WriteBinaryClosure(path, value)

\* ------------------------------------------------------- the reader thread
\* A poll that stops on a disconnected channel only.
EnginePollIgnoresToken(e) ==
    /\ Running(e)
    /\ engines[e].pc = "poll"
    /\ IF TryRecv(engines[e]) = "Disconnected"
       THEN /\ engines' = [engines EXCEPT ![e] = Exit(@, "Cancelled")]
            /\ last' = EngineResult(e, "Cancelled")
       ELSE /\ engines' = [engines EXCEPT ![e].pc = "read", ![e].tokens = 0]
            /\ last' = EngineResult(e, "Empty")
    /\ UNCHANGED <<serialports, lock>>

\* Top of the loop: rx.try_recv().
EnginePoll(e) ==
    /\ Running(e)
    /\ engines[e].pc = "poll"
    /\ IF TryRecv(engines[e]) \in {"Ok", "Disconnected"}
       THEN /\ engines' = [engines EXCEPT ![e] = Exit(@, "Cancelled")]
            /\ last' = EngineResult(e, "Cancelled")
       ELSE /\ engines' = [engines EXCEPT ![e].pc = "read"]
            /\ last' = EngineResult(e, "Empty")
    /\ UNCHANGED <<serialports, lock>>

\* serial.read_exact(&mut buf) returned one byte.
EngineByte(e, byte) ==
    LET eng == engines[e]
        buf == PushChar(eng.message_buf, byte)
        frame == Append(eng.raw, byte)
    IN  /\ Running(e)
        /\ eng.pc = "read"
        /\ byte # NEWLINE => Len(eng.raw) < MaxBuf
        /\ IF byte = NEWLINE
           THEN /\ engines' = [engines EXCEPT ![e].message_buf = <<>>,
                                               ![e].raw = <<>>,
                                               ![e].pc = "poll"]
                /\ last' = [EngineResult(e, "Byte") EXCEPT
                              !.byte = byte,
                              !.emitted = << MessageEvent(eng.path, buf, frame,
                                                          eng.tokens > 0) >>]
           ELSE /\ engines' = [engines EXCEPT ![e].message_buf = buf,
                                               ![e].raw = frame,
                                               ![e].pc = "poll"]
                /\ last' = [EngineResult(e, "Byte") EXCEPT !.byte = byte]
        /\ UNCHANGED <<serialports, lock>>

\* serial.read_exact(&mut buf) timed out: `continue`.
EngineTimeout(e) ==
    /\ Running(e)
    /\ engines[e].pc = "read"
    /\ engines' = [engines EXCEPT ![e].pc = "poll"]
    /\ last' = EngineResult(e, "TimedOut")
    /\ UNCHANGED <<serialports, lock>>

\* A reader that reports the device loss when read_exact fails.
EngineErrorEmits(e) ==
    /\ Running(e)
    /\ engines[e].pc = "read"
    /\ engines' = [engines EXCEPT ![e] = Exit(@, "IoError")]
    /\ last' = [EngineResult(e, "IoError") EXCEPT
                  !.dropped = Len(engines[e].message_buf),
                  !.emitted = << DisconnectedEvent(engines[e].path) >>]
    /\ UNCHANGED <<serialports, lock>>

\* serial.read_exact(&mut buf) failed with another error: `break`.
EngineError(e) ==
    /\ Running(e)
    /\ engines[e].pc = "read"
    /\ engines' = [engines EXCEPT ![e] = Exit(@, "IoError")]
    /\ last' = [EngineResult(e, "IoError") EXCEPT
                  !.dropped = Len(engines[e].message_buf)]
    /\ UNCHANGED <<serialports, lock>>

EngineStep(e) ==
    \/ EnginePoll(e)
    \/ \E byte \in Bytes : EngineByte(e, byte)
    \/ EngineTimeout(e)
    \/ EngineError(e)

\* ------------------------------------------------------------------ Next
Next ==
    \/ \E path \in Paths : open(path)
    \/ \E path \in Paths : close(path)
    \/ close_all
    \/ \E path \in Paths : force_close(path)
    \/ \E path \in Paths : read(path)
    \/ \E path \in Paths : cancel_read(path)
    \/ \E path \in Paths, value \in Payloads : write(path, value)
    \/ \E path \in Paths, value \in Payloads : write_binary(path, value)
    \/ \E e \in 1..MaxEngines : EngineStep(e)

Spec == Init /\ [][Next]_vars

\* The operating system schedules every reader thread, and read_exact
\* returns within the port's timeout.
FairSpec == Spec /\ \A e \in 1..MaxEngines : WF_vars(EngineStep(e))

\* ------------------------------------------------- the lock, step by step
\* get_serialport has taken the mutex and found the Session; the closure of
\* write or write_binary enters serialport.write with the guard alive.
DeviceWriteEnter(op, path, value) ==
    /\ lock = Free
    /\ path \in DOMAIN serialports
    /\ lock' = [op |-> op, path |-> path, value |-> value]
    /\ UNCHANGED <<serialports, engines, last>>

\* serialport.write returns; the command returns and the guard is dropped.
DeviceWriteReturn ==
    /\ lock # Free
    /\ \/ lock.op = "write" /\ WriteClosure(lock.path, lock.value)
       \/ lock.op = "write_binary" /\ WriteBinaryClosure(lock.path, lock.value)
    /\ lock' = Free

\* The program with the device write of write and write_binary as a step of
\* its own: the command is inside serialport.write between DeviceWriteEnter
\* and DeviceWriteReturn, and every other command waits for the mutex.
LockNext ==
    \/ \E path \in Paths : open(path)
    \/ \E path \in Paths : close(path)
    \/ close_all
    \/ \E path \in Paths : force_close(path)
    \/ \E path \in Paths : read(path)
    \/ \E path \in Paths : cancel_read(path)
    \/ \E path \in Paths : NotFound("write", path)
    \/ \E path \in Paths : NotFound("write_binary", path)
    \/ \E path \in Paths, value \in Payloads :
          DeviceWriteEnter("write", path, value)
    \/ \E path \in Paths, value \in Payloads :
          DeviceWriteEnter("write_binary", path, value)
    \/ DeviceWriteReturn
    \/ \E e \in 1..MaxEngines : EngineStep(e)

LockSpec == Init /\ [][LockNext]_vars

\* ================================================================ claims
\* A stored sender whose reader thread has exited: its send fails.
DeadSender(map) ==
    \E p \in DOMAIN map :
        map[p].sender # 0 /\ engines[map[p].sender].state # "Running"

\* C1: force_close(id) always returns success and afterwards id is not in
\* the Registry, whatever the state of id's reader.
C1_ForceCloseAlwaysRemoves ==
    last.op = "force_close" =>
        last.result = "Ok" /\ last.path \notin DOMAIN serialports

\* C2: cancel_read(id) on an open id always succeeds and leaves the
\* Session's cancellation sender absent.
C2_CancelReadClearsSender ==
    (last.op = "cancel_read" /\ last.path \in DOMAIN serialports) =>
        last.result = "Ok" /\ serialports[last.path].sender = 0

\* C3: at most one reader thread in state Running exists per port
\* identifier, in every reachable state.
C3_OneRunningEnginePerPath ==
    \A p \in Paths :
        Cardinality({ e \in 1..Len(engines) :
                        engines[e].path = p /\ engines[e].state = "Running" }) <= 1

\* C4: close_all succeeds and leaves the Registry empty even when an open
\* port has a stored sender whose reader has exited.
C4_CloseAllSucceedsWithDeadReader ==
    (last.op = "close_all" /\ DeadSender(last.before)) =>
        last.result = "Ok" /\ serialports = << >>

\* C5: close_all either signals every session that has a sender and returns
\* success with the Registry empty, or returns the send failure with the
\* Registry exactly as it was before the call.
C5_CloseAllAllOrNothing ==
    last.op = "close_all" =>
        \/ /\ last.result = "Ok"
           /\ serialports = << >>
           /\ \A p \in DOMAIN last.before :
                 LET s == last.before[p].sender IN
                 s # 0 => /\ p \in last.signalled
                          /\ engines[s].state = "Running" => engines[s].tokens > 0
        \/ /\ last.result = "SendError"
           /\ DeadSender(last.before)
           /\ serialports = last.before

\* A close_all that failed after it had already signalled a reader.
C5_Witness ==
    /\ last.op = "close_all"
    /\ last.result = "SendError"
    /\ last.signalled # {}
    /\ Cardinality(DOMAIN serialports) = 2

\* The reader thread e will leave its loop at its next poll.
Signalled(e) == engines[e].tokens > 0 \/ ~engines[e].txAlive

\* The step taken is a step of reader thread e that emitted an event.
Emits(e) == last'.op = "engine" /\ last'.engine = e /\ last'.emitted # << >>

\* When a path leaves the Registry, every Running reader of that path has a
\* token queued or a disconnected channel; such a reader stays so until it
\* exits and does not start another device read after its next poll.
C6_RemovalCancels ==
    \A e \in 1..Len(engines) :
        /\ ( /\ Running(e)
             /\ engines[e].path \in DOMAIN serialports
             /\ engines[e].path \notin DOMAIN serialports' )
           => (engines'[e].tokens > 0 \/ ~engines'[e].txAlive)
        /\ (Running(e) /\ Signalled(e))
           => /\ engines'[e].state = "Running" =>
                    (engines'[e].tokens > 0 \/ ~engines'[e].txAlive)
              /\ engines[e].pc = "poll" => engines'[e].pc # "read"

\* C6: whenever close, force_close or close_all removes a Session that has
\* a Running reader, that reader is cancelled by the removal (token queued
\* or channel disconnected), completes at most one further device read and
\* then exits; under fair scheduling no reader stays Running after its
\* Session was removed.
C6_ReaderStopsAfterRemoval ==
    /\ [][C6_RemovalCancels]_vars
    /\ \A e \in 1..MaxEngines :
          (Running(e) /\ engines[e].path \notin DOMAIN serialports) ~> ~Running(e)

\* A Session was just removed while its reader was blocked in the device read.
C6_Witness ==
    /\ last.op \in {"close", "force_close", "close_all"}
    /\ last.result = "Ok"
    /\ \E e \in 1..Len(engines) :
          /\ Running(e)
          /\ engines[e].pc = "read"
          /\ engines[e].path \notin DOMAIN serialports
          /\ ~engines[e].txAlive

\* C7 as stated: once a token is queued for a Running reader, that reader
\* emits no further Message event and it ends in state Cancelled.
C7_NoMessageAfterToken ==
    [][ \A e \in 1..Len(engines) :
          (Running(e) /\ engines[e].tokens > 0) =>
              /\ ~Emits(e)
              /\ engines'[e].state \in {"Running", "Cancelled"} ]_vars

\* A reader with a token queued: the token stays until the reader's next
\* poll; the read in flight may complete (and emit); from the poll on
\* nothing is emitted and the reader exits Cancelled.
C7_TokenStep ==
    \A e \in 1..Len(engines) :
        (Running(e) /\ engines[e].tokens > 0) =>
            /\ engines'[e].state = "Running" => engines'[e].tokens > 0
            /\ engines[e].pc = "poll" =>
                  /\ ~Emits(e)
                  /\ engines'[e].pc # "read"
                  /\ engines'[e].state \in {"Running", "Cancelled"}
            /\ engines[e].pc = "read" =>
                  \/ engines'[e].pc = "read"
                  \/ engines'[e].pc = "poll"
                  \/ engines'[e].state = "IoError"

\* C7 (amended): once a token is queued for a Running reader, the reader
\* completes at most the device read already in flight, so emits at most
\* one further Message event, and then exits: Cancelled at its next poll,
\* or IoError if the read in flight fails.
C7_AtMostOneReadAfterToken ==
    /\ [][C7_TokenStep]_vars
    /\ \A e \in 1..MaxEngines :
          (Running(e) /\ engines[e].tokens > 0) ~> ~Running(e)

\* A Message event emitted while a cancellation token was queued.
C7_Witness ==
    /\ last.op = "engine"
    /\ last.emitted # << >>
    /\ last.emitted[1].pending
    /\ engines[last.engine].state = "Running"
    /\ engines[last.engine].tokens > 0

\* The step taken is the return of a read_exact call of reader thread e.
ReadReturns(e, result) ==
    /\ Running(e)
    /\ engines[e].pc = "read"
    /\ last'.op = "engine"
    /\ last'.engine = e
    /\ last'.result = result

\* C8: the reader emits exactly one Message event per newline byte read,
\* the message being the bytes read since the previous newline up to and
\* including this one; any other byte is buffered and emits nothing; a
\* timeout changes neither the buffer nor the events and the loop goes on.
C8_OneMessagePerNewline ==
    [][ \A e \in 1..Len(engines) :
          /\ (ReadReturns(e, "Byte") /\ last'.byte = NEWLINE) =>
                /\ Len(last'.emitted) = 1
                /\ last'.emitted[1].kind = "read"
                /\ last'.emitted[1].data = Append(engines[e].raw, NEWLINE)
                /\ last'.emitted[1].size = Len(engines[e].raw) + 1
                /\ engines'[e].message_buf = << >>
          /\ (ReadReturns(e, "Byte") /\ last'.byte # NEWLINE) =>
                /\ last'.emitted = << >>
                /\ engines'[e].raw = Append(engines[e].raw, last'.byte)
                /\ engines'[e].message_buf # << >>
          /\ ReadReturns(e, "TimedOut") =>
                /\ last'.emitted = << >>
                /\ engines'[e].message_buf = engines[e].message_buf
                /\ engines'[e].state = "Running"
                /\ engines'[e].pc = "poll" ]_vars

\* C9: every Message event carries exactly the bytes read from the device
\* for its frame, and its size is the number of those bytes.
C9_MessageIsRawBytes ==
    \A i \in DOMAIN last.emitted :
        last.emitted[i].kind = "read" =>
            /\ last.emitted[i].data = last.emitted[i].frame
            /\ last.emitted[i].size = Len(last.emitted[i].frame)

\* C10: a failing device write emits a Disconnected event for the path and
\* returns a write error, for write and for write_binary; a successful
\* write emits nothing.
C10_WriteFailureEmitsDisconnected ==
    last.op \in {"write", "write_binary"} =>
        /\ last.result = "WriteError" =>
              last.emitted = << DisconnectedEvent(last.path) >>
        /\ last.result = "Ok" => last.emitted = << >>

\* C11: open(id) on an identifier already in the Registry fails with
\* AlreadyOpen without calling the device open, and leaves the Registry,
\* the Session (its handle and sender) and every reader thread unchanged.
C11_OpenTwiceRejected ==
    [][ \A p \in Paths :
          (last'.op = "open" /\ last'.path = p /\ p \in DOMAIN serialports) =>
              /\ last'.result = "AlreadyOpen"
              /\ ~last'.opened
              /\ serialports' = serialports
              /\ engines' = engines ]_vars

\* open was just rejected for a Session whose reader is Running.
C11_Witness ==
    /\ last.op = "open"
    /\ last.result = "AlreadyOpen"
    /\ serialports[last.path].sender # 0
    /\ Running(serialports[last.path].sender)

\* C12: close(id) on an identifier that is not in the Registry fails with
\* NotFound and changes nothing; force_close(id) on it returns success and
\* changes nothing.
C12_CloseAbsent ==
    [][ \A p \in Paths :
          (last'.path = p /\ p \notin DOMAIN serialports) =>
              /\ last'.op = "close" =>
                    /\ last'.result = "NotFound"
                    /\ UNCHANGED <<serialports, engines>>
              /\ last'.op = "force_close" =>
                    /\ last'.result = "Ok"
                    /\ UNCHANGED <<serialports, engines>> ]_vars

\* force_close just returned success for a path that was not open, while
\* another port is open.
C12_Witness ==
    /\ last.op = "force_close"
    /\ ~last.found
    /\ last.result = "Ok"
    /\ serialports # << >>

\* C13: a successful open(id) adds exactly the Session of id, with no
\* sender; a successful close(id) removes exactly the Session of id; both
\* leave every other Session unchanged; a failed device open inserts
\* nothing.
C13_OpenCloseEffect ==
    [][ \A p \in Paths :
          /\ (last'.op = "open" /\ last'.path = p /\ last'.result = "Ok") =>
                /\ p \notin DOMAIN serialports
                /\ DOMAIN serialports' = DOMAIN serialports \cup {p}
                /\ serialports'[p] = SerialportInfo(0)
                /\ \A q \in DOMAIN serialports : serialports'[q] = serialports[q]
          /\ (last'.op = "open" /\ last'.path = p /\ last'.result = "OpenError") =>
                serialports' = serialports
          /\ (last'.op = "close" /\ last'.path = p /\ last'.result = "Ok") =>
                /\ p \in DOMAIN serialports
                /\ DOMAIN serialports' = DOMAIN serialports \ {p}
                /\ \A q \in DOMAIN serialports' : serialports'[q] = serialports[q] ]_vars

\* A port was just opened beside another port that has a stored sender.
C13_Witness ==
    /\ last.op = "open"
    /\ last.result = "Ok"
    /\ serialports[last.path].sender = 0
    /\ \E q \in DOMAIN serialports : serialports[q].sender # 0

\* C14: read(id) on a Session that has a stored sender returns success
\* and does nothing: no try_clone, no thread spawned, sender unchanged.  A
\* thread is spawned only by a read that finds no sender, duplicates the
\* handle once and stores the new sender, so while that sender stays
\* stored no further duplication or spawn happens.
C14_ReadWhileReadingIsNoOp ==
    [][ /\ \A p \in DOMAIN serialports :
             (last'.op = "read" /\ last'.path = p /\ serialports[p].sender # 0) =>
                 /\ last'.result = "Ok"
                 /\ ~last'.cloned
                 /\ last'.spawned = 0
                 /\ UNCHANGED <<serialports, engines>>
        /\ engines' # engines =>
             \/ Len(engines') = Len(engines)
             \/ /\ last'.op = "read"
                /\ last'.path \in DOMAIN serialports
                /\ serialports[last'.path].sender = 0
                /\ last'.cloned
                /\ Len(engines') = Len(engines) + 1
                /\ serialports'[last'.path].sender = Len(engines') ]_vars

\* read just returned success without spawning: the reader spawned by an
\* earlier read is still the only thread.
C14_Witness ==
    /\ last.op = "read"
    /\ last.result = "Ok"
    /\ last.spawned = 0
    /\ Len(engines) = 1
    /\ serialports[last.path].sender = 1

\* C15: when read(id) finds no sender and try_clone fails, a Disconnected
\* event for id is emitted and the error returned, no sender is stored, no
\* thread is spawned and the Session stays in the Registry; when try_clone
\* succeeds the sender is stored and exactly one thread is spawned, which
\* holds the receiver of that sender's channel.
C15_ReadCloneOutcome ==
    [][ \A p \in DOMAIN serialports :
          (last'.op = "read" /\ last'.path = p /\ serialports[p].sender = 0) =>
              /\ last'.cloned
              /\ last'.result \in {"Ok", "CloneError"}
              /\ last'.result = "CloneError" =>
                    /\ last'.emitted = << DisconnectedEvent(p) >>
                    /\ last'.spawned = 0
                    /\ UNCHANGED <<serialports, engines>>
              /\ last'.result = "Ok" =>
                    /\ last'.emitted = << >>
                    /\ engines' = Append(engines, NewEngine(p))
                    /\ last'.spawned = Len(engines')
                    /\ serialports' =
                          [serialports EXCEPT ![p].sender = Len(engines')] ]_vars

\* read just failed to duplicate the handle of an open port.
C15_Witness ==
    /\ last.op = "read"
    /\ last.result = "CloneError"
    /\ last.path \in DOMAIN serialports
    /\ serialports[last.path].sender = 0

\* C16: for every identifier in the Registry, the Session's sender is
\* present if and only if a reader thread of that identifier is Running.
C16_SenderIffRunning ==
    \A p \in DOMAIN serialports :
        serialports[p].sender # 0 <=>
            \E e \in 1..Len(engines) : Running(e) /\ engines[e].path = p

\* C17: a device read that fails with an error other than a timeout moves
\* the reader to IoError without emitting anything (no Disconnected event,
\* no Message for the buffered bytes); a reader that has left its loop
\* keeps its terminal state and takes no further step, so emits nothing.
C17_IoErrorIsSilentAndTerminal ==
    [][ \A e \in 1..Len(engines) :
          /\ ReadReturns(e, "IoError") =>
                /\ engines'[e].state = "IoError"
                /\ last'.emitted = << >>
          /\ engines[e].state # "Running" =>
                /\ engines'[e].state = engines[e].state
                /\ engines'[e].pc = "done"
                /\ ~(last'.op = "engine" /\ last'.engine = e) ]_vars

\* A reader just failed on the device read with bytes in its buffer.
C17_Witness ==
    /\ last.op = "engine"
    /\ last.result = "IoError"
    /\ last.dropped > 0
    /\ last.emitted = << >>
    /\ engines[last.engine].state = "IoError"

\* C19: the set of identifiers in the Registry changes only by a
\* successful open (adds its path), a successful close or force_close
\* (removes its path) or a successful close_all (removes all); every other
\* step, of a command or of a reader thread, leaves it unchanged.
C19_RegistryFrame ==
    [][ DOMAIN serialports' # DOMAIN serialports =>
          /\ last'.result = "Ok"
          /\ \/ /\ last'.op = "open"
                /\ last'.path \notin DOMAIN serialports
                /\ DOMAIN serialports' = DOMAIN serialports \cup {last'.path}
             \/ /\ last'.op \in {"close", "force_close"}
                /\ DOMAIN serialports' = DOMAIN serialports \ {last'.path}
             \/ /\ last'.op = "close_all"
                /\ DOMAIN serialports' = {} ]_vars

\* A write just failed on the device and its port is still open.
C19_Witness ==
    /\ last.op = "write"
    /\ last.result = "WriteError"
    /\ last.path \in DOMAIN serialports

\* C20: whenever read(id) returns success, a reader thread of id is
\* Running at that moment.
C20_ReadOkMeansReading ==
    (last.op = "read" /\ last.result = "Ok") =>
        \E e \in 1..Len(engines) : Running(e) /\ engines[e].path = last.path

\* C18: in no reachable state does a thread hold the Registry's mutex
\* while it is inside a blocking device I/O call.
C18_NoLockAcrossDeviceIO ==
    lock.op \notin {"write", "write_binary"}

\* C21: for any two distinct port identifiers, the Message and Disconnected
\* events of one are never emitted under the event address of the other;
\* stated for the events of a step and every other port that is open.
C21_EventAddressInjective ==
    \A i \in 1..Len(last.emitted) :
        \A p \in DOMAIN serialports \ {last.path} :
            last.emitted[i].name # EventPath(p)

=============================================================================
